---- MODULE Spec2Model ----
(***************************************************************************)
(* Cloud Functions REST client: create, patch, delete, list,               *)
(* generateUploadUrl (functions module) and getOperation (operations       *)
(* module).                                                                *)
(*                                                                         *)
(* Strings are sequences of tokens: "/" is always a token of its own and   *)
(* every other token is a run of characters without "/".  Concatenation is *)
(* \o, so a path built by a template literal and one built by "+" are      *)
(* equal exactly when the strings are.                                     *)
(*                                                                         *)
(* An optional value is <<>> (undefined) or <<v>>.                         *)
(*                                                                         *)
(* One call is in progress at a time (calls share no state): pc is "idle", *)
(* "awaiting" (the request is with the transport) or "settled" (the        *)
(* promise of the call is resolved or rejected).                           *)
(***************************************************************************)
EXTENDS Integers, Sequences, FiniteSets, TLC

VARIABLES pc, call, requests, log, response, outcome

vars == <<pc, call, requests, log, response, outcome>>

(***************************************************************************)
(* Bounds of the model.                                                    *)
(***************************************************************************)
MaxFunctions == 2

MaxSubkeys == 2

(***************************************************************************)
(* Program constants.                                                      *)
(***************************************************************************)
API_VERSION == <<"v1">>

ERR_DEPLOYMENT_QUOTA_EXCEEDED_MESSAGE == <<"You have exceeded your deployment quota">>

ERR_GENERATE_UPLOAD_URL_FAILURE_MESSAGE == <<"There was an issue deploying your functions">>

QuotaStatusCode == 429

(***************************************************************************)
(* Input domains.                                                          *)
(***************************************************************************)
ProjectIds == {<<"proj">>, <<"other">>}

LocationNames == {<<"us-central1">>}

FunctionNames == {<<"foo">>, <<"bar">>}

Targets ==
  [projectId : ProjectIds, locationName : LocationNames, functionName : FunctionNames]

QualifiedFoo ==
  <<"projects", "/", "proj", "/", "locations", "/", "us-central1", "/", "functions", "/", "foo">>

\* The descriptor passed to create and patch: its name and its trigger variant.
CloudFunctions ==
  [name : {<<"foo">>, QualifiedFoo}, trigger : {"httpsTrigger", "eventTrigger"}]

\* Errors the transport fails with: an identity, a message and an optional
\* nested context.response.statusCode.
Errors ==
  { [id |-> 1, message |-> "quota", statusCode |-> <<429>>],
    [id |-> 2, message |-> "internal", statusCode |-> <<500>>],
    [id |-> 3, message |-> "socket hang up", statusCode |-> <<>>] }

OperationNames == {<<"operations", "/", "op1">>}

\* Fully-qualified resource names a list response can carry.
ResourceNames ==
  { QualifiedFoo, <<"bar">>, <<"functions", "/">>, <<"a", "/", "b", "/", "a">> }

EventTriggerKeys == {"eventType", "resource", "failurePolicy"}

RECURSIVE SeqsUpTo(_, _)
\* All sequences of pairwise distinct elements of S of length at most n.
SeqsUpTo(S, n) ==
  IF n = 0 THEN {<<>>}
  ELSE LET shorter == SeqsUpTo(S, n - 1)
       IN  shorter \cup
           { Append(s, x) : <<s, x>> \in
               { p \in shorter \X S : \A i \in 1..Len(p[1]) : p[1][i] # p[2] } }

\* The trigger object of the patch options: its own keys, in insertion
\* order irrelevant for the body, and the sub-keys of the event trigger in
\* insertion order.
Triggers ==
  [eventTrigger : {<<>>} \cup { <<ks>> : ks \in SeqsUpTo(EventTriggerKeys, MaxSubkeys) },
   httpsTrigger : {<<>>, <<"url">>},
   other : {{}, {"description"}}]

PatchOptions ==
  [functionName : {<<"foo">>},
   sourceUploadUrl : {<<>>, <<"https://upload">>},
   labels : {<<>>, <<"deployment-tool">>},
   runtime : {<<>>, <<"nodejs8">>},
   availableMemoryMb : {<<>>, <<0>>, <<256>>},
   timeout : {<<>>, <<"">>, <<"60s">>},
   trigger : Triggers]

DeleteOptions ==
  [projectId : ProjectIds, region : LocationNames, functionName : FunctionNames]

(***************************************************************************)
(* makePath                                                                *)
(***************************************************************************)
MakePath(t) ==
  LET projectPath == <<"/">> \o API_VERSION \o <<"/", "projects", "/">> \o t.projectId
      locationPath == projectPath \o <<"/", "locations", "/">> \o t.locationName
      functionsPath == locationPath \o <<"/", "functions">>
  IN  IF t.functionName # <<>>
        THEN functionsPath \o <<"/">> \o t.functionName[1]
        ELSE functionsPath

(***************************************************************************)
(* Log lines and error values.                                             *)
(***************************************************************************)
LogLine(level, message) == [level |-> level, message |-> message]

\* new FirebaseError(message, { original, context })
FirebaseError(message, original, context) ==
  [kind |-> "FirebaseError", message |-> message, original |-> original,
   context |-> context]

\* The value thrown by the runtime when an identifier has no binding.
ReferenceError(identifier) == [kind |-> "ReferenceError", identifier |-> identifier]

\* _.get(error, ["context", "response", "statusCode"]) === 429
IsQuotaExceeded(error) == error.statusCode = <<QuotaStatusCode>>

(***************************************************************************)
(* makeFirebaseError: logs, then throws.  The function is async, so what   *)
(* its caller gets back is a promise rejected with the typed error.        *)
(***************************************************************************)
MakeFirebaseError(functionName, operationType, error) ==
  [log |->
     <<LogLine("warn", <<"functions: failed to ", operationType, " function ">>
                          \o functionName)>>
     \o (IF IsQuotaExceeded(error)
           THEN <<LogLine("debug", <<error.message>>),
                  LogLine("info", ERR_DEPLOYMENT_QUOTA_EXCEEDED_MESSAGE)>>
           ELSE <<LogLine("info", <<error.message>>)>>),
   returned |->
     [kind |-> "Promise", state |-> "rejected",
      reason |-> FirebaseError(<<"Failed to ", operationType, " function ">>
                                 \o functionName,
                               error, [function |-> functionName])]]

(***************************************************************************)
(* logAndRejectOperation is called by the failure handlers of patch and    *)
(* delete; the functions module neither defines nor imports it.  When some *)
(* enclosing scope provides it, it is the normalisation the design         *)
(* describes for update and delete: the same log lines as create, then a   *)
(* rejection with the typed error.                                         *)
(***************************************************************************)
LogAndRejectOperation(functionName, operationType, error) ==
  [log |-> MakeFirebaseError(functionName, operationType, error).log,
   returned |-> MakeFirebaseError(functionName, operationType, error).returned]

(***************************************************************************)
(* What a call settles with: the lines it logs and its promise's state.    *)
(***************************************************************************)
Settle(lines, state, value) ==
  [log |-> lines, outcome |-> [state |-> state, value |-> value]]

\* A promise returned from a then-handler is adopted by the outer promise.
Adopt(lines, promise) == Settle(lines, promise.state, promise.reason)

(***************************************************************************)
(* generateUploadUrl                                                       *)
(***************************************************************************)
GenerateUploadUrlPath(projectId, locationName) ==
  MakePath([projectId |-> projectId, locationName |-> locationName,
            functionName |-> <<>>]) \o <<":generateUploadUrl">>

GenerateUploadUrlTry(body) == Settle(<<>>, "resolved", body.uploadUrl)

GenerateUploadUrlCatch(error) ==
  Settle(<<LogLine("info", ERR_GENERATE_UPLOAD_URL_FAILURE_MESSAGE)>>,
         "rejected", error)

(***************************************************************************)
(* createFunction                                                          *)
(***************************************************************************)
CreateFunctionPath(target) ==
  MakePath([projectId |-> target.projectId, locationName |-> target.locationName,
            functionName |-> <<target.functionName>>])

CreateFunctionTry(body) == Settle(<<>>, "resolved", body)

\* throw makeFirebaseError(...): the thrown value is what the call returned.
CreateFunctionCatch(cloudFunction, error) ==
  LET made == MakeFirebaseError(cloudFunction.name, "create", error)
  IN  Settle(made.log, "rejected", made.returned)

(***************************************************************************)
(* patchFunction.  The body reads options, func and endpoint, none of      *)
(* which is a parameter or a local of the function: they are bound only    *)
(* when an enclosing scope provides them (see PatchFunction).              *)
(***************************************************************************)
StringValue(s) == [kind |-> "string", value |-> s]

\* JavaScript truthiness of an optional string and of an optional number.
TruthyString(o) == o # <<>> /\ o[1] # ""

TruthyNumber(o) == o # <<>> /\ o[1] # 0

\* The own keys of the trigger object, as _.assign copies them.
TriggerKeys(trigger) ==
  (IF trigger.eventTrigger # <<>> THEN {"eventTrigger"} ELSE {})
  \cup (IF trigger.httpsTrigger # <<>> THEN {"httpsTrigger"} ELSE {})
  \cup trigger.other

\* Faulty variant of PatchDataKeys: timeout is copied whenever it was
\* supplied, not only when it is truthy.
PatchDataKeysTimeoutSupplied(options) ==
  {"sourceUploadUrl", "name", "labels"}
  \cup TriggerKeys(options.trigger)
  \cup (IF TruthyString(options.runtime) THEN {"runtime"} ELSE {})
  \cup (IF TruthyNumber(options.availableMemoryMb) THEN {"availableMemoryMb"} ELSE {})
  \cup (IF options.timeout # <<>> THEN {"timeout"} ELSE {})

\* The keys of the data object sent as the request body.
PatchDataKeys(options) ==
  {"sourceUploadUrl", "name", "labels"}
  \cup TriggerKeys(options.trigger)
  \cup (IF TruthyString(options.runtime) THEN {"runtime"} ELSE {})
  \cup (IF TruthyNumber(options.availableMemoryMb) THEN {"availableMemoryMb"} ELSE {})
  \cup (IF TruthyString(options.timeout) THEN {"timeout"} ELSE {})

\* Faulty variant of PatchMasks: availableMemoryMb is masked whenever it was
\* supplied, 0 included.
PatchMasksMemorySupplied(options) ==
  <<<<"sourceUploadUrl">>, <<"name">>, <<"labels">>>>
  \o (IF TruthyString(options.runtime) THEN <<<<"runtime">>>> ELSE <<>>)
  \o (IF options.availableMemoryMb # <<>>
        THEN <<<<"availableMemoryMb">>>> ELSE <<>>)
  \o (IF TruthyString(options.timeout) THEN <<<<"timeout">>>> ELSE <<>>)
  \o (IF options.trigger.eventTrigger # <<>>
        THEN [i \in 1..Len(options.trigger.eventTrigger[1]) |->
                <<"eventTrigger", ".", options.trigger.eventTrigger[1][i]>>]
        ELSE <<<<"httpsTrigger">>>>)

\* Faulty variant of PatchMasks: the httpsTrigger path is added whenever the
\* trigger carries an HTTPS trigger, not only in the else branch.
PatchMasksHttpsWhenPresent(options) ==
  <<<<"sourceUploadUrl">>, <<"name">>, <<"labels">>>>
  \o (IF TruthyString(options.runtime) THEN <<<<"runtime">>>> ELSE <<>>)
  \o (IF TruthyNumber(options.availableMemoryMb)
        THEN <<<<"availableMemoryMb">>>> ELSE <<>>)
  \o (IF TruthyString(options.timeout) THEN <<<<"timeout">>>> ELSE <<>>)
  \o (IF options.trigger.eventTrigger # <<>>
        THEN [i \in 1..Len(options.trigger.eventTrigger[1]) |->
                <<"eventTrigger", ".", options.trigger.eventTrigger[1][i]>>]
        ELSE <<>>)
  \o (IF options.trigger.httpsTrigger # <<>> THEN <<<<"httpsTrigger">>>> ELSE <<>>)

\* The update mask, a sequence of field paths in the order they are added.
PatchMasks(options) ==
  <<<<"sourceUploadUrl">>, <<"name">>, <<"labels">>>>
  \o (IF TruthyString(options.runtime) THEN <<<<"runtime">>>> ELSE <<>>)
  \o (IF TruthyNumber(options.availableMemoryMb)
        THEN <<<<"availableMemoryMb">>>> ELSE <<>>)
  \o (IF TruthyString(options.timeout) THEN <<<<"timeout">>>> ELSE <<>>)
  \o (IF options.trigger.eventTrigger # <<>>
        THEN [i \in 1..Len(options.trigger.eventTrigger[1]) |->
                <<"eventTrigger", ".", options.trigger.eventTrigger[1][i]>>]
        ELSE <<<<"httpsTrigger">>>>)

RECURSIVE Join(_, _)
\* masks.join(",")
Join(parts, separator) ==
  IF Len(parts) = 0 THEN <<>>
  ELSE IF Len(parts) = 1 THEN parts[1]
  ELSE parts[1] \o <<separator>> \o Join(Tail(parts), separator)

PatchRequest(options, func, endpoint) ==
  [method |-> "PATCH", path |-> endpoint,
   qs |-> <<Join(PatchMasks(options), ",")>>,
   data |-> [keys |-> PatchDataKeys(options), name |-> func]]

PatchThen(func, body) ==
  Settle(<<>>, "resolved",
         [func |-> func, done |-> FALSE, name |-> body.name, type |-> "update"])

\* The failure handler: logAndRejectOperation(options.functionName, "update", err)
PatchCatch(options, error, defined) ==
  IF defined
    THEN LET r == LogAndRejectOperation(options.functionName, "update", error)
         IN  Adopt(r.log, r.returned)
    ELSE Settle(<<>>, "rejected", ReferenceError("logAndRejectOperation"))

(***************************************************************************)
(* deleteFunction                                                          *)
(***************************************************************************)
DeleteFunc(options) ==
  LET location == <<"projects", "/">> \o options.projectId
                    \o <<"/", "locations", "/">> \o options.region
  IN  location \o <<"/", "functions", "/">> \o options.functionName

\* Faulty variant of DeleteEndpoint: the API version is left out.
DeleteEndpointNoVersion(options) == <<"/">> \o DeleteFunc(options)

DeleteEndpoint(options) == <<"/">> \o API_VERSION \o <<"/">> \o DeleteFunc(options)

DeleteThen(options, body) ==
  Settle(<<>>, "resolved",
         [func |-> DeleteFunc(options), done |-> FALSE, name |-> body.name,
          type |-> "delete"])

DeleteCatch(options, error, defined) ==
  IF defined
    THEN LET r == LogAndRejectOperation(options.functionName, "delete", error)
         IN  Adopt(r.log, r.returned)
    ELSE Settle(<<>>, "rejected", ReferenceError("logAndRejectOperation"))

(***************************************************************************)
(* listFunctions                                                           *)
(***************************************************************************)
ListEndpoint(projectId, region) ==
  <<"/">> \o API_VERSION \o <<"/", "projects", "/">> \o projectId
  \o <<"/", "locations", "/">> \o region \o <<"/", "functions">>

RECURSIVE FirstIndexOf(_, _)
\* Faulty variant of LastIndexOf: String.prototype.indexOf.
FirstIndexOf(s, c) ==
  IF Len(s) = 0 THEN -1
  ELSE IF s[1] = c THEN 0
  ELSE LET rest == FirstIndexOf(Tail(s), c)
       IN  IF rest = -1 THEN -1 ELSE rest + 1

RECURSIVE LastIndexOf(_, _)
\* String.prototype.lastIndexOf: the 0-based index of the last occurrence,
\* -1 when there is none.
LastIndexOf(s, c) ==
  IF Len(s) = 0 THEN -1
  ELSE IF s[Len(s)] = c THEN Len(s) - 1
  ELSE LastIndexOf(SubSeq(s, 1, Len(s) - 1), c)

\* String.prototype.substring(start), start 0-based.
Substring(s, start) == SubSeq(s, start + 1, Len(s))

ListThen(body) ==
  LET functionsList == IF body.functions # <<>> THEN body.functions[1] ELSE <<>>
  IN  Settle(<<>>, "resolved",
             [i \in 1..Len(functionsList) |->
                [name |-> functionsList[i].name,
                 functionName |->
                   Substring(functionsList[i].name,
                             LastIndexOf(functionsList[i].name, "/") + 1)]])

ListCatch(projectId, error) ==
  Settle(<<LogLine("debug", <<"[functions] failed to list functions for ">>
                              \o projectId),
           LogLine("debug", <<"[functions] ", error.message>>)>>,
         "rejected", StringValue(error.message))

(***************************************************************************)
(* getOperation (operations module)                                        *)
(***************************************************************************)
GetOperationPath(target) == <<"/">> \o API_VERSION \o <<"/">> \o target.name

GetOperationTry(body) == Settle(<<>>, "resolved", body)

\* Faulty variant of GetOperationCatch: rejects with the message, as list does.
GetOperationCatchMessage(target, error) ==
  Settle(<<LogLine("debug", <<"[functions] failed to get status of operation: ">>
                              \o target.name),
           LogLine("debug", <<"[functions] ", error.message>>)>>,
         "rejected", StringValue(error.message))

GetOperationCatch(target, error) ==
  Settle(<<LogLine("debug", <<"[functions] failed to get status of operation: ">>
                              \o target.name),
           LogLine("debug", <<"[functions] ", error.message>>)>>,
         "rejected", error)

(***************************************************************************)
(* Response bodies of the transport.                                       *)
(***************************************************************************)
CreateBodies == {[name |-> <<"operations", "/", "op1">>, done |-> FALSE]}

OperationBodies == [name : OperationNames]

UploadUrlBodies == {[uploadUrl |-> StringValue("https://storage/upload")]}

Resources == [name : ResourceNames]

ListBodies ==
  [functions :
     {<<>>} \cup
     { <<fs>> : fs \in UNION { [1..n -> Resources] : n \in 0..MaxFunctions } }]

GetOperationBodies == [name : OperationNames, done : BOOLEAN]

\* What the enclosing scope binds options, func and endpoint to, when it does.
PatchEnvironments ==
  [options : PatchOptions, func : {QualifiedFoo},
   endpoint : {<<"/">> \o API_VERSION \o <<"/">> \o QualifiedFoo}]

Request(method, path) == [method |-> method, path |-> path, qs |-> <<>>, data |-> <<>>]

NoResponse == [kind |-> "none"]

Pending == [state |-> "pending"]

(***************************************************************************)
(* State machine.                                                          *)
(***************************************************************************)
Init ==
  /\ pc = "idle"
  /\ call = [op |-> "none"]
  /\ requests = <<>>
  /\ log = <<>>
  /\ response = NoResponse
  /\ outcome = Pending

\* api.request(...) was called: the call is suspended on the transport.
Issue(c, request) ==
  /\ pc = "idle"
  /\ pc' = "awaiting"
  /\ call' = c
  /\ requests' = Append(requests, request)
  /\ UNCHANGED <<log, response, outcome>>

\* The transport's promise settled and the continuation ran to its end.
Continue(r, settled) ==
  /\ pc' = "settled"
  /\ response' = r
  /\ log' = log \o settled.log
  /\ outcome' = settled.outcome
  /\ UNCHANGED <<call, requests>>

Ok(body) == [kind |-> "ok", body |-> body]

Failed(error) == [kind |-> "error", error |-> error]

Awaiting(op) == pc = "awaiting" /\ call.op = op

GenerateUploadUrl ==
  \E projectId \in ProjectIds, locationName \in LocationNames :
    Issue([op |-> "generateUploadUrl", projectId |-> projectId,
           locationName |-> locationName],
          Request("POST", GenerateUploadUrlPath(projectId, locationName)))

GenerateUploadUrlResolved ==
  /\ Awaiting("generateUploadUrl")
  /\ \E body \in UploadUrlBodies : Continue(Ok(body), GenerateUploadUrlTry(body))

GenerateUploadUrlRejected ==
  /\ Awaiting("generateUploadUrl")
  /\ \E error \in Errors : Continue(Failed(error), GenerateUploadUrlCatch(error))

CreateFunction ==
  \E target \in Targets, cloudFunction \in CloudFunctions :
    Issue([op |-> "create", target |-> target, cloudFunction |-> cloudFunction],
          [Request("POST", CreateFunctionPath(target))
             EXCEPT !.data = <<cloudFunction>>])

CreateFunctionResolved ==
  /\ Awaiting("create")
  /\ \E body \in CreateBodies : Continue(Ok(body), CreateFunctionTry(body))

CreateFunctionRejected ==
  /\ Awaiting("create")
  /\ \E error \in Errors :
       Continue(Failed(error), CreateFunctionCatch(call.cloudFunction, error))

\* options has no binding: evaluating options.sourceUploadUrl throws before
\* any request is made and the async function's promise rejects.
PatchFunctionUnbound ==
  /\ pc = "idle"
  /\ \E target \in Targets, cloudFunction \in CloudFunctions :
       call' = [op |-> "patch", target |-> target, cloudFunction |-> cloudFunction,
                env |-> <<>>]
  /\ pc' = "settled"
  /\ outcome' = [state |-> "rejected", value |-> ReferenceError("options")]
  /\ UNCHANGED <<requests, log, response>>

PatchFunction ==
  \E target \in {t \in Targets : t.projectId = <<"proj">> /\ t.functionName = <<"foo">>},
     cloudFunction \in {c \in CloudFunctions : c.name = QualifiedFoo /\ c.trigger = "httpsTrigger"},
     env \in PatchEnvironments :
    Issue([op |-> "patch", target |-> target, cloudFunction |-> cloudFunction,
           env |-> <<env>>],
          PatchRequest(env.options, env.func, env.endpoint))

PatchFunctionResolved ==
  /\ Awaiting("patch")
  /\ \E body \in OperationBodies :
       Continue(Ok(body), PatchThen(call.env[1].func, body))

PatchFunctionRejected ==
  /\ Awaiting("patch")
  /\ \E error \in Errors, defined \in BOOLEAN :
       Continue(Failed(error), PatchCatch(call.env[1].options, error, defined))

DeleteFunction ==
  \E options \in DeleteOptions :
    Issue([op |-> "delete", options |-> options],
          Request("DELETE", DeleteEndpoint(options)))

DeleteFunctionResolved ==
  /\ Awaiting("delete")
  /\ \E body \in OperationBodies : Continue(Ok(body), DeleteThen(call.options, body))

DeleteFunctionRejected ==
  /\ Awaiting("delete")
  /\ \E error \in Errors, defined \in BOOLEAN :
       Continue(Failed(error), DeleteCatch(call.options, error, defined))

ListFunctions ==
  \E projectId \in ProjectIds, region \in LocationNames :
    Issue([op |-> "list", projectId |-> projectId, region |-> region],
          Request("GET", ListEndpoint(projectId, region)))

ListFunctionsResolved ==
  /\ Awaiting("list")
  /\ \E body \in ListBodies : Continue(Ok(body), ListThen(body))

ListFunctionsRejected ==
  /\ Awaiting("list")
  /\ \E error \in Errors : Continue(Failed(error), ListCatch(call.projectId, error))

GetOperation ==
  \E target \in [name : OperationNames] :
    Issue([op |-> "getOperation", target |-> target],
          Request("GET", GetOperationPath(target)))

GetOperationResolved ==
  /\ Awaiting("getOperation")
  /\ \E body \in GetOperationBodies : Continue(Ok(body), GetOperationTry(body))

GetOperationRejected ==
  /\ Awaiting("getOperation")
  /\ \E error \in Errors : Continue(Failed(error), GetOperationCatch(call.target, error))

\* The caller has its result; the next call starts from a clean slate.
Return ==
  /\ pc = "settled"
  /\ pc' = "idle"
  /\ call' = [op |-> "none"]
  /\ requests' = <<>>
  /\ log' = <<>>
  /\ response' = NoResponse
  /\ outcome' = Pending

Next ==
  \/ GenerateUploadUrl
  \/ GenerateUploadUrlResolved
  \/ GenerateUploadUrlRejected
  \/ CreateFunction
  \/ CreateFunctionResolved
  \/ CreateFunctionRejected
  \/ PatchFunctionUnbound
  \/ PatchFunction
  \/ PatchFunctionResolved
  \/ PatchFunctionRejected
  \/ DeleteFunction
  \/ DeleteFunctionResolved
  \/ DeleteFunctionRejected
  \/ ListFunctions
  \/ ListFunctionsResolved
  \/ ListFunctionsRejected
  \/ GetOperation
  \/ GetOperationResolved
  \/ GetOperationRejected
  \/ Return

Spec == Init /\ [][Next]_vars

(***************************************************************************)
(* Vocabulary of the properties.                                           *)
(***************************************************************************)
\* /v1/projects/{projectId}/locations/{locationName}/functions
CollectionPath(projectId, locationName) ==
  <<"/", "v1", "/", "projects", "/">> \o projectId
  \o <<"/", "locations", "/">> \o locationName \o <<"/", "functions">>

\* {collection}/{functionName}
ItemPath(projectId, locationName, functionName) ==
  CollectionPath(projectId, locationName) \o <<"/">> \o functionName

RECURSIVE Split(_, _)
\* The pieces of s between occurrences of the separator.
Split(s, separator) ==
  IF \A i \in 1..Len(s) : s[i] # separator THEN <<s>>
  ELSE LET k == CHOOSE i \in 1..Len(s) :
                  s[i] = separator /\ \A j \in 1..(i - 1) : s[j] # separator
       IN  <<SubSeq(s, 1, k - 1)>> \o Split(SubSeq(s, k + 1, Len(s)), separator)

RequestFailed == pc = "settled" /\ response.kind = "error"

RequestSucceeded == pc = "settled" /\ response.kind = "ok"

\* A patch call that got as far as sending its request.
PatchSent == call.op = "patch" /\ Len(requests) = 1

SentOptions == call.env[1].options

\* The field paths of the updateMask query parameter of the patch request.
SentMask == Split(requests[1].qs[1], ",")

SentKeys == requests[1].data.keys

InMask(path) == \E i \in 1..Len(SentMask) : SentMask[i] = path

\* The mask names a top-level field directly or through a sub-field path.
MaskNames(field) == \E i \in 1..Len(SentMask) : SentMask[i][1] = field

IsEventPath(path) == Len(path) = 3 /\ path[1] = "eventTrigger" /\ path[2] = "."

IsHttpsPath(path) == path = <<"httpsTrigger">>

EventPaths == SelectSeq(SentMask, IsEventPath)

HttpsPaths == SelectSeq(SentMask, IsHttpsPath)

Logged(line) == \E i \in 1..Len(log) : log[i] = line

QuotaMessageLogged ==
  \E i \in 1..Len(log) : log[i].message = ERR_DEPLOYMENT_QUOTA_EXCEEDED_MESSAGE

(***************************************************************************)
(* C1: create issues exactly one POST request and its path is the          *)
(* collection path /v1/projects/{projectId}/locations/{locationName}/      *)
(* functions, whatever the target's functionName.                          *)
(***************************************************************************)
C1_CreatePostsToCollectionPath ==
  call.op = "create" =>
    /\ Len(requests) = 1
    /\ requests[1].method = "POST"
    /\ requests[1].path = CollectionPath(call.target.projectId, call.target.locationName)

(***************************************************************************)
(* C2: when the request of create fails with error e, the caller receives  *)
(* as the failure a typed domain error (not a promise or other wrapper)    *)
(* whose original cause is e and whose context names the function by the   *)
(* target's functionName.                                                  *)
(***************************************************************************)
C2_CreateFailsWithTypedError ==
  (call.op = "create" /\ RequestFailed) =>
    /\ outcome.state = "rejected"
    /\ outcome.value.kind = "FirebaseError"
    /\ outcome.value.original = response.error
    /\ outcome.value.context = [function |-> call.target.functionName]

(***************************************************************************)
(* C3: for create, patch and delete, when the request fails the quota      *)
(* remediation message is logged if and only if the nested status code is  *)
(* 429; otherwise the underlying message is logged at info level.          *)
(***************************************************************************)
C3_QuotaMessageIffStatus429 ==
  (call.op \in {"create", "patch", "delete"} /\ RequestFailed) =>
    /\ QuotaMessageLogged <=> response.error.statusCode = <<429>>
    /\ response.error.statusCode # <<429>> =>
         Logged(LogLine("info", <<response.error.message>>))

(***************************************************************************)
(* C4: when the request of generateUploadUrl or getOperation fails with    *)
(* error e, the call fails with that same error e, unwrapped, having       *)
(* written its log lines (the setup hint; the two debug lines).            *)
(***************************************************************************)
C4_RethrowsOriginalAfterLogging ==
  /\ (call.op = "generateUploadUrl" /\ RequestFailed) =>
       /\ outcome = [state |-> "rejected", value |-> response.error]
       /\ log = <<LogLine("info", ERR_GENERATE_UPLOAD_URL_FAILURE_MESSAGE)>>
  /\ (call.op = "getOperation" /\ RequestFailed) =>
       /\ outcome = [state |-> "rejected", value |-> response.error]
       /\ log = <<LogLine("debug", <<"[functions] failed to get status of operation: ">>
                                     \o call.target.name),
                  LogLine("debug", <<"[functions] ", response.error.message>>)>>

C4_Witness ==
  /\ call.op = "getOperation"
  /\ RequestFailed
  /\ response.error.id = 2
  /\ outcome.state = "rejected"
  /\ Len(log) = 2

IsTailSegment(name, t) ==
  \E k \in 0..Len(name) :
    /\ t = SubSeq(name, k + 1, Len(name))
    /\ \A j \in (k + 1)..Len(name) : name[j] # "/"
    /\ k = 0 \/ name[k] = "/"

ServerFunctions ==
  IF response.body.functions = <<>> THEN <<>> ELSE response.body.functions[1]

C7_ListAttachesFunctionName ==
  (call.op = "list" /\ RequestSucceeded) =>
    /\ outcome.state = "resolved"
    /\ Len(outcome.value) = Len(ServerFunctions)
    /\ \A i \in 1..Len(ServerFunctions) :
         /\ outcome.value[i].name = ServerFunctions[i].name
         /\ IsTailSegment(ServerFunctions[i].name, outcome.value[i].functionName)

C7_Witness ==
  /\ call.op = "list"
  /\ RequestSucceeded
  /\ Len(outcome.value) = 2
  /\ outcome.value[1].name = <<"a", "/", "b", "/", "a">>
  /\ outcome.value[1].functionName = <<"a">>
  /\ outcome.value[2].name = <<"bar">>
  /\ outcome.value[2].functionName = <<"bar">>

(***************************************************************************)
(* C8: the path built without a function name is                           *)
(* /v1/projects/p/locations/l/functions and with function name f is        *)
(* /v1/projects/p/locations/l/functions/f; delete and list, which build    *)
(* their paths by hand, produce the same item and collection path as       *)
(* makePath for the same identifiers.                                      *)
(***************************************************************************)
C8_ResourcePaths ==
  /\ call.op = "generateUploadUrl" =>
       requests[1].path =
         CollectionPath(call.projectId, call.locationName) \o <<":generateUploadUrl">>
  /\ call.op = "create" =>
       requests[1].path =
         ItemPath(call.target.projectId, call.target.locationName,
                  call.target.functionName)
  /\ call.op = "delete" =>
       /\ requests[1].path =
            ItemPath(call.options.projectId, call.options.region,
                     call.options.functionName)
       /\ requests[1].path =
            MakePath([projectId |-> call.options.projectId,
                      locationName |-> call.options.region,
                      functionName |-> <<call.options.functionName>>])
  /\ call.op = "list" =>
       /\ requests[1].path = CollectionPath(call.projectId, call.region)
       /\ requests[1].path =
            MakePath([projectId |-> call.projectId, locationName |-> call.region,
                      functionName |-> <<>>])

C8_Witness ==
  /\ call.op = "delete"
  /\ pc = "awaiting"
  /\ requests[1].path =
       <<"/", "v1", "/", "projects", "/", "other", "/", "locations", "/",
         "us-central1", "/", "functions", "/", "bar">>

(***************************************************************************)
(* C9: for every operation, if its request fails the operation never       *)
(* completes successfully, never issues a second request, and at least one *)
(* log line is written before the failure reaches the caller.              *)
(***************************************************************************)
C9_FailureLoggedNotRetried ==
  RequestFailed =>
    /\ outcome.state = "rejected"
    /\ Len(requests) = 1
    /\ Len(log) >= 1

(***************************************************************************)
(* C10 (as stated): in every patch request a top-level field is a key of   *)
(* the body if and only if the update mask names it, and the body carries  *)
(* no key of the supplied trigger object that the mask does not name.      *)
(***************************************************************************)
TopLevelFields ==
  {"sourceUploadUrl", "name", "labels", "runtime", "availableMemoryMb", "timeout",
   "eventTrigger", "httpsTrigger"}

SingleVariantTrigger(trigger) ==
  /\ trigger.other = {}
  /\ \/ trigger.httpsTrigger = <<>> /\ trigger.eventTrigger \notin {<<>>, <<<<>>>>}
     \/ trigger.httpsTrigger # <<>> /\ trigger.eventTrigger = <<>>

====
